---- MODULE Spec2Model ----
(***************************************************************************)
(* Model of authorization.js: a role registry (roles, roleMap), wildcard   *)
(* permission matching, permission-template expansion and the hasPermission*)
(* / isAuthorized decisions built on them.                                 *)
(*                                                                         *)
(* A JavaScript string is a sequence of one-character strings, so that     *)
(* toLowerCase, split and replace are computed and not assumed.  Role      *)
(* identifiers are property keys of roleMap and are kept as TLA+ strings.  *)
(* A call's outcome is "true", "false", or the name of the exception that  *)
(* escapes it ("TypeError", "RangeError").                                 *)
(***************************************************************************)
EXTENDS Integers, Sequences, FiniteSets, TLC

VARIABLES roles, roleMap, call

vars == <<roles, roleMap, call>>

(***************************************************************************)
(* Bounds of the model.                                                    *)
(***************************************************************************)
\* longest permission string (in characters) given to isPermissionMatch
MaxPermLen == 3
\* most roles the registry list holds
MaxRoles == 3
\* most roles passed to one loadRoles call
MaxLoad == 2
\* call-stack limit of the engine: frames of hasPermission before RangeError
MaxDepth == 6

(***************************************************************************)
(* Strings.                                                                *)
(***************************************************************************)
Min(a, b) == IF a < b THEN a ELSE b

\* String.prototype.toLowerCase on one character
LowerChar(c) ==
    CASE c = "U" -> "u"
      [] c = "V" -> "v"
      [] c = "W" -> "w"
      [] OTHER -> c

ToLowerCase(s) == [i \in 1..Len(s) |-> LowerChar(s[i])]

\* String.prototype.split(sep) for a one-character separator: the pieces
\* between separators, empty pieces kept ("" gives one empty piece)
RECURSIVE SplitFrom(_, _, _, _)
SplitFrom(s, sep, i, piece) ==
    IF i > Len(s) THEN <<piece>>
    ELSE IF s[i] = sep THEN <<piece>> \o SplitFrom(s, sep, i + 1, <<>>)
    ELSE SplitFrom(s, sep, i + 1, Append(piece, s[i]))

Split(s, sep) == SplitFrom(s, sep, 1, <<>>)

\* whether pattern occurs in s starting at position i
OccursAt(s, pattern, i) ==
    /\ i + Len(pattern) - 1 <= Len(s)
    /\ \A k \in 1..Len(pattern) : s[i + k - 1] = pattern[k]

\* String.prototype.indexOf, 1-based; 0 when the pattern does not occur
IndexOf(s, pattern) ==
    IF \E i \in 1..Len(s) : OccursAt(s, pattern, i)
    THEN CHOOSE i \in 1..Len(s) :
            /\ OccursAt(s, pattern, i)
            /\ \A j \in 1..(i - 1) : ~OccursAt(s, pattern, j)
    ELSE 0

\* String.prototype.replace(pattern, replacement) with a non-empty string
\* pattern and a replacement free of '$': the first occurrence only
Replace(s, pattern, replacement) ==
    LET i == IndexOf(s, pattern) IN
    IF i = 0 THEN s
    ELSE SubSeq(s, 1, i - 1) \o replacement \o SubSeq(s, i + Len(pattern), Len(s))

\* the template literal `<${key}>`
Placeholder(key) == <<"<">> \o key \o <<">">>

(***************************************************************************)
(* isPermissionMatch                                                       *)
(***************************************************************************)
\* the for loop of isPermissionMatch from index i (1-based)
RECURSIVE MatchLoop(_, _, _)
MatchLoop(piecesA, piecesB, i) ==
    IF ~(i <= Min(Len(piecesA), Len(piecesB))) THEN TRUE
    ELSE IF /\ piecesA[i] # piecesB[i]
            /\ piecesA[i] # <<"*">>
            /\ piecesB[i] # <<"*">>
         THEN FALSE
    ELSE MatchLoop(piecesA, piecesB, i + 1)

\* mutant: the two permissions must have the same number of segments
isPermissionMatchSameLength(permissionA, permissionB) ==
    LET piecesA == Split(ToLowerCase(permissionA), ".")
        piecesB == Split(ToLowerCase(permissionB), ".")
    IN  Len(piecesA) = Len(piecesB) /\ MatchLoop(piecesA, piecesB, 1)

\* mutant: only a wildcard of the second permission is honoured
RECURSIVE MatchLoopHeldWildcard(_, _, _)
MatchLoopHeldWildcard(piecesA, piecesB, i) ==
    IF ~(i <= Min(Len(piecesA), Len(piecesB))) THEN TRUE
    ELSE IF piecesA[i] # piecesB[i] /\ piecesB[i] # <<"*">> THEN FALSE
    ELSE MatchLoopHeldWildcard(piecesA, piecesB, i + 1)

isPermissionMatchHeldWildcard(permissionA, permissionB) ==
    LET piecesA == Split(ToLowerCase(permissionA), ".")
        piecesB == Split(ToLowerCase(permissionB), ".")
    IN  MatchLoopHeldWildcard(piecesA, piecesB, 1)

isPermissionMatch(permissionA, permissionB) ==
    LET piecesA == Split(ToLowerCase(permissionA), ".")
        piecesB == Split(ToLowerCase(permissionB), ".")
    IN  MatchLoop(piecesA, piecesB, 1)

(***************************************************************************)
(* Specification of the matcher: the two arguments are drawn in Init and   *)
(* the call is applied to them.                                            *)
(***************************************************************************)
PermChars == {"u", "U", "*", "."}

RECURSIVE StringsUpTo(_)
StringsUpTo(n) ==
    IF n = 0 THEN {<<>>}
    ELSE LET shorter == StringsUpTo(n - 1) IN
         shorter \cup {Append(s, c) : s \in shorter, c \in PermChars}

EmptyRoleMap == [k \in {} |-> <<>>]

InitMatch ==
    /\ roles = <<>>
    /\ roleMap = EmptyRoleMap
    /\ \E a \in StringsUpTo(MaxPermLen), b \in StringsUpTo(MaxPermLen) :
          call = [op |-> "pending", a |-> a, b |-> b]

IsPermissionMatchCall ==
    /\ call.op = "pending"
    /\ call' = [op |-> "isPermissionMatch", a |-> call.a, b |-> call.b,
                result |-> isPermissionMatch(call.a, call.b)]
    /\ UNCHANGED <<roles, roleMap>>

NextMatch == IsPermissionMatchCall

SpecMatch == InitMatch /\ [][NextMatch]_vars

(***************************************************************************)
(* Segments of a permission string, counted from its dots.                 *)
(***************************************************************************)
DotsBefore(s, p) == Cardinality({q \in 1..(p - 1) : s[q] = "."})

NumSegments(s) == DotsBefore(s, Len(s) + 1) + 1

\* positions of the characters of the i-th segment
SegmentPositions(s, i) ==
    {p \in 1..Len(s) : s[p] # "." /\ DotsBefore(s, p) = i - 1}

\* the i-th segments of a and b are equal once lower-cased
SameSegment(a, b, i) ==
    LET pa == SegmentPositions(a, i)
        pb == SegmentPositions(b, i)
    IN  /\ Cardinality(pa) = Cardinality(pb)
        /\ \A p \in pa : \E q \in pb :
              /\ Cardinality({x \in pa : x < p}) = Cardinality({y \in pb : y < q})
              /\ LowerChar(a[p]) = LowerChar(b[q])

IsWildcardSegment(s, i) ==
    \E p \in 1..Len(s) : SegmentPositions(s, i) = {p} /\ s[p] = "*"

SegmentsAgree(a, b) ==
    \A i \in 1..Min(NumSegments(a), NumSegments(b)) :
        \/ SameSegment(a, b, i)
        \/ IsWildcardSegment(a, i)
        \/ IsWildcardSegment(b, i)

\* C4: isPermissionMatch(a, b) is true exactly when, at every position below
\* the smaller segment count, the lower-cased segments are equal or one of
\* them is the wildcard; segments past the shorter permission are ignored.
C4_MatchIffSegmentsAgree ==
    call.op = "isPermissionMatch" =>
        (call.result <=> SegmentsAgree(call.a, call.b))

\* a one-segment permission matched against a longer one of another case
C4_Witness ==
    /\ call.op = "isPermissionMatch"
    /\ call.a = <<"u">>
    /\ call.b = <<"U", ".", "u">>
    /\ call.result = TRUE

\* C5: isPermissionMatch is symmetric in its two arguments, whatever their
\* lengths and wherever the wildcards are.
C5_MatchSymmetric ==
    call.op = "isPermissionMatch" =>
        call.result = isPermissionMatch(call.b, call.a)

\* a wildcard on the first side only, and different segment counts
C5_Witness ==
    /\ call.op = "isPermissionMatch"
    /\ call.a = <<"*", ".", "u">>
    /\ call.b = <<"u">>
    /\ call.result = TRUE


(***************************************************************************)
(* JavaScript values that reach the registry and hasPermission.            *)
(***************************************************************************)
Null == [t |-> "null"]
Undefined == [t |-> "undefined"]
Str(v) == [t |-> "string", v |-> v]
RoleValue(role) == [t |-> "role", role |-> role]
FunctionValue(name) == [t |-> "function", name |-> name]
User(id, roleIds) == [t |-> "user", _id |-> id, roleIds |-> roleIds]

\* ToBoolean: null, undefined and the empty string are falsy
Truthy(value) ==
    /\ value.t # "null"
    /\ value.t # "undefined"
    /\ (value.t = "string" => value.v # "")

\* roleMap is the object literal {}: besides its own keys it answers to the
\* keys it inherits from Object.prototype
ObjectPrototypeKeys == {"constructor", "toString", "hasOwnProperty", "valueOf"}

\* key in roleMap
HasProperty(map, key) == key \in DOMAIN map \/ key \in ObjectPrototypeKeys

\* roleMap[key]
GetProperty(map, key) ==
    IF key \in DOMAIN map THEN RoleValue(map[key])
    ELSE IF key \in ObjectPrototypeKeys THEN FunctionValue(key)
    ELSE Undefined

\* roleMap[key] = role
SetProperty(map, key, role) ==
    [k \in DOMAIN map \cup {key} |-> IF k = key THEN role ELSE map[k]]

(***************************************************************************)
(* loadRoles, getRole                                                      *)
(***************************************************************************)
\* the roleMap after the for loop of loadRoles, from index i
RECURSIVE LoadedMap(_, _, _)
LoadedMap(map, newRoles, i) ==
    IF i > Len(newRoles) THEN map
    ELSE LoadedMap(SetProperty(map, newRoles[i]._id, newRoles[i]), newRoles, i + 1)

\* the roles list after the for loop of loadRoles
LoadedList(list, newRoles) == list \o newRoles

getRole(map, roleId) ==
    IF HasProperty(map, roleId) THEN GetProperty(map, roleId) ELSE Null

(***************************************************************************)
(* hasPermission.  depth is the number of hasPermission frames on the call *)
(* stack; the recursion has no other limit.                                *)
(***************************************************************************)
RECURSIVE hasPermission(_, _, _, _)
RECURSIVE AnyHasPermission(_, _, _, _, _)

\* a loop `for (const id of ids) if (hasPermission(id, permission)) return
\* true`, from index i; an exception of a call escapes the loop
AnyHasPermission(map, ids, i, permission, depth) ==
    IF i > Len(ids) THEN "false"
    ELSE LET r == hasPermission(map, Str(ids[i]), permission, depth) IN
         IF r = "false" THEN AnyHasPermission(map, ids, i + 1, permission, depth)
         ELSE r

\* mutant: the loop over role.inherits asks about the role itself again
hasPermissionOfSelf(map, userOrRoleId, permission, depth) ==
    IF depth > MaxDepth THEN "RangeError"
    ELSE IF ~Truthy(userOrRoleId) THEN "false"
    ELSE IF userOrRoleId.t = "string" THEN
        LET role == GetProperty(map, userOrRoleId.v) IN
        IF ~Truthy(role) THEN "false"
        ELSE IF role.t # "role" THEN "TypeError"
        ELSE IF \E k \in 1..Len(role.role.permissions) :
                    isPermissionMatch(permission, role.role.permissions[k])
             THEN "true"
        ELSE AnyHasPermission(map, [k \in 1..Len(role.role.inherits) |-> userOrRoleId.v],
                              1, permission, depth + 1)
    ELSE AnyHasPermission(map, userOrRoleId.roleIds, 1, permission, depth + 1)

hasPermission(map, userOrRoleId, permission, depth) ==
    IF depth > MaxDepth THEN "RangeError"
    ELSE IF ~Truthy(userOrRoleId) THEN "false"
    ELSE IF userOrRoleId.t = "string" THEN
        LET role == GetProperty(map, userOrRoleId.v) IN
        IF ~Truthy(role) THEN "false"
        ELSE IF role.t # "role" THEN "TypeError"
        ELSE IF \E k \in 1..Len(role.role.permissions) :
                    isPermissionMatch(permission, role.role.permissions[k])
             THEN "true"
        ELSE AnyHasPermission(map, role.role.inherits, 1, permission, depth + 1)
    ELSE AnyHasPermission(map, userOrRoleId.roleIds, 1, permission, depth + 1)

(***************************************************************************)
(* Inputs of the registry specifications.                                  *)
(***************************************************************************)
HeldU == <<"u", ".", "*">>
HeldW == <<"W">>
RequiredUV == <<"u", ".", "v">>
RequiredW == <<"w", ".", "u">>

Role(id, permissions, inherits) ==
    [_id |-> id, permissions |-> permissions, inherits |-> inherits]

\* the roles handed to loadRoles: chains a -> b -> c, both orders of two
\* parents, a two-role cycle a <-> b, a self-cycle c, a parent named like a
\* member of Object.prototype, and roles sharing an identifier
LoadableRoles ==
    { Role("a", <<>>, <<"b">>),
      Role("a", <<>>, <<"b", "c">>),
      Role("a", <<>>, <<"c", "b">>),
      Role("a", <<HeldW>>, <<>>),
      Role("b", <<HeldU>>, <<>>),
      Role("b", <<>>, <<"c">>),
      Role("b", <<>>, <<"a">>),
      Role("c", <<HeldU>>, <<>>),
      Role("c", <<>>, <<"c">>),
      Role("c", <<>>, <<"constructor">>) }

RoleIds == {"a", "b", "c"}
QueryIds == RoleIds \cup {"constructor", ""}

RECURSIVE RoleListsUpTo(_)
RoleListsUpTo(n) ==
    IF n <= 0 THEN {<<>>}
    ELSE LET shorter == RoleListsUpTo(n - 1) IN
         shorter \cup {Append(l, r) : l \in shorter, r \in LoadableRoles}

Idle == [op |-> "idle"]

Init ==
    /\ roles = <<>>
    /\ roleMap = EmptyRoleMap
    /\ call = Idle

LoadRoles ==
    /\ call.op = "idle"
    /\ \E newRoles \in RoleListsUpTo(Min(MaxLoad, MaxRoles - Len(roles))) :
          /\ roleMap' = LoadedMap(roleMap, newRoles, 1)
          /\ roles' = LoadedList(roles, newRoles)
          /\ call' = [op |-> "loadRoles", arg |-> newRoles]

GetRole ==
    /\ call.op = "idle"
    /\ \E roleId \in QueryIds :
          call' = [op |-> "getRole", arg |-> roleId,
                   result |-> getRole(roleMap, roleId)]
    /\ UNCHANGED <<roles, roleMap>>

\* the call has returned to the host, which goes on to its next call
Return ==
    /\ call.op # "idle"
    /\ call' = Idle
    /\ UNCHANGED <<roles, roleMap>>

Next == LoadRoles \/ GetRole \/ Return

Spec == Init /\ [][Next]_vars


(***************************************************************************)
(* Specification of hasPermission over the loaded registry.                *)
(***************************************************************************)
UserRoleIds ==
    { <<>>, <<"a">>, <<"b">>, <<"a", "c">>, <<"c", "a">>,
      <<"constructor", "a">>, <<"a", "constructor">> }

UserIds == {5, 6}

RequiredPermissions == {RequiredUV, RequiredW}

HasPermissionArguments ==
    {Null} \cup {Str(id) : id \in QueryIds}
           \cup {User(5, roleIds) : roleIds \in UserRoleIds}

HasPermission ==
    /\ call.op = "idle"
    /\ \E userOrRoleId \in HasPermissionArguments,
          permission \in RequiredPermissions :
          call' = [op |-> "hasPermission", arg |-> userOrRoleId,
                   permission |-> permission,
                   result |-> hasPermission(roleMap, userOrRoleId, permission, 1)]
    /\ UNCHANGED <<roles, roleMap>>

NextPerm == LoadRoles \/ HasPermission \/ Return

SpecPerm == Init /\ [][NextPerm]_vars

(***************************************************************************)
(* The inherits graph over the registered roles.                           *)
(***************************************************************************)
Registered(map) == DOMAIN map

\* an inherits edge followed through a role present in the registry
Edge(map, x, y) ==
    /\ x \in Registered(map)
    /\ y \in Registered(map)
    /\ \E k \in 1..Len(map[x].inherits) : map[x].inherits[k] = y

RECURSIVE ReachWithin(_, _, _)
ReachWithin(map, from, n) ==
    IF n = 0 THEN from
    ELSE LET nearer == ReachWithin(map, from, n - 1) IN
         nearer \cup {y \in Registered(map) : \E x \in nearer : Edge(map, x, y)}

\* the registered roles reachable from id by zero or more inherits edges
Reachable(map, id) ==
    IF id \in Registered(map)
    THEN ReachWithin(map, {id}, Cardinality(Registered(map)))
    ELSE {}

OnCycle(map, x) ==
    \E y \in Registered(map) : Edge(map, x, y) /\ x \in Reachable(map, y)

Acyclic(map) == \A x \in Registered(map) : ~OnCycle(map, x)

ReachesCycle(map, id) == \E x \in Reachable(map, id) : OnCycle(map, x)

Holds(map, x, permission) ==
    \E k \in 1..Len(map[x].permissions) :
        isPermissionMatch(permission, map[x].permissions[k])

SomeReachableHolds(map, id, permission) ==
    \E x \in Reachable(map, id) : Holds(map, x, permission)

RoleLevelCall == call.op = "hasPermission" /\ call.arg.t = "string"
UserLevelCall == call.op = "hasPermission" /\ call.arg.t = "user"


(***************************************************************************)
(* Claims about the registry and hasPermission.                            *)
(***************************************************************************)
\* the last role of the list carrying the identifier, or null
LatestLoaded(list, roleId) ==
    LET at == {i \in 1..Len(list) : list[i]._id = roleId} IN
    IF at = {} THEN Null
    ELSE RoleValue(list[CHOOSE i \in at : \A j \in at : j <= i])

\* C8: after any sequence of loadRoles calls the list ends with the roles
\* just passed, in order and with duplicates, and getRole(id) is the most
\* recently loaded role carrying id, or null for an id never loaded.
C8_RegistryAppendOnlyStable ==
    /\ call.op = "loadRoles" =>
          /\ Len(roles) >= Len(call.arg)
          /\ SubSeq(roles, Len(roles) - Len(call.arg) + 1, Len(roles)) = call.arg
    /\ call.op = "getRole" => call.result = LatestLoaded(roles, call.arg)

\* C3: on an acyclic registry, hasPermission(roleId, required) is true
\* exactly when a registered role reachable from roleId holds a matching
\* permission, and an unknown roleId or parent gives false, not an error.
C3_RoleGrantIffReachableHolds ==
    (RoleLevelCall /\ Acyclic(roleMap)) =>
        call.result =
            IF SomeReachableHolds(roleMap, call.arg.v, call.permission)
            THEN "true" ELSE "false"

\* C2: hasPermission(user, required) is true exactly when one of the user's
\* role identifiers grants required at role level, and a null user or an
\* absent role identifier gives false without an error (read on an acyclic
\* registry, the precondition of the role-level search).
C2_UserGrantIffSomeRoleGrants ==
    /\ (UserLevelCall /\ Acyclic(roleMap)) =>
          call.result =
              IF \E k \in 1..Len(call.arg.roleIds) :
                    hasPermission(roleMap, Str(call.arg.roleIds[k]),
                                  call.permission, 1) = "true"
              THEN "true" ELSE "false"
    /\ (call.op = "hasPermission" /\ ~Truthy(call.arg)) => call.result = "false"

\* C9 as stated: a call on a registered role that lies on or reaches an
\* inherits cycle never returns, and on an acyclic registry it terminates.
C9_CycleNeverReturns ==
    RoleLevelCall =>
        /\ ReachesCycle(roleMap, call.arg.v) => call.result \notin {"true", "false"}
        /\ Acyclic(roleMap) => call.result # "RangeError"

\* C9 amended: a call on a role that reaches a cycle never returns false; it
\* returns true only if a reachable role holds a match, and returns nothing
\* when none does; on an acyclic registry the recursion always ends.
C9_CycleNeverReturnsFalse ==
    RoleLevelCall =>
        /\ ReachesCycle(roleMap, call.arg.v) =>
              /\ call.result # "false"
              /\ call.result = "true" =>
                    SomeReachableHolds(roleMap, call.arg.v, call.permission)
              /\ ~SomeReachableHolds(roleMap, call.arg.v, call.permission) =>
                    call.result = "RangeError" \/ call.result = "TypeError"
        /\ Acyclic(roleMap) => call.result # "RangeError"

\* the recursion ran away on a cycle that no match cut short
C9_Witness ==
    /\ RoleLevelCall
    /\ ReachesCycle(roleMap, call.arg.v)
    /\ call.result = "RangeError"
    /\ SomeReachableHolds(roleMap, call.arg.v, call.permission)


(***************************************************************************)
(* Texts used by the expander and its inputs.                              *)
(***************************************************************************)
TargetKey == <<"t", "a", "r", "g", "e", "t">>
SelfText == <<"s", "e", "l", "f">>
OthersText == <<"o", "t", "h", "e", "r", "s">>
ActionKey == <<"a", "c", "t", "i", "o", "n">>
RoleKey == <<"r", "o", "l", "e">>
KKey == <<"k">>
UpdateText == <<"u", "p", "d", "a", "t", "e">>
DriverText == <<"d", "r", "i", "v", "e", "r">>
SupervisorText == <<"s", "u", "p", "e", "r", "v", "i", "s", "o", "r">>
\* "users.<action>.<target>.<role>", the template of the README
ReadmeTemplate == <<"u", "s", "e", "r", "s", ".", "<", "a", "c", "t", "i", "o", "n", ">", ".", "<", "t", "a", "r", "g", "e", "t", ">", ".", "<", "r", "o", "l", "e", ">">>
\* "users.update.self.driver" and "users.update.self.supervisor"
ReadmeDriver == <<"u", "s", "e", "r", "s", ".", "u", "p", "d", "a", "t", "e", ".", "s", "e", "l", "f", ".", "d", "r", "i", "v", "e", "r">>
ReadmeSupervisor == <<"u", "s", "e", "r", "s", ".", "u", "p", "d", "a", "t", "e", ".", "s", "e", "l", "f", ".", "s", "u", "p", "e", "r", "v", "i", "s", "o", "r">>

(***************************************************************************)
(* fillPermissionTemplate.  An options object is a record: has is the set  *)
(* of its own keys among targetId, static and all; static and all list     *)
(* their entries <<key, value>> in the order for...in visits them.         *)
(***************************************************************************)
\* permissions.map(permission => permission.replace(pattern, replacement))
MapReplace(permissions, pattern, replacement) ==
    [i \in 1..Len(permissions) |-> Replace(permissions[i], pattern, replacement)]

\* the targetId step
FillTarget(userId, permissions, options) ==
    IF "targetId" \in options.has
    THEN LET self == userId = options.targetId IN
         MapReplace(permissions, Placeholder(TargetKey),
                    IF self THEN SelfText ELSE OthersText)
    ELSE permissions

\* the for...in loop over options.static, from entry i
RECURSIVE StaticLoop(_, _, _)
StaticLoop(permissions, static, i) ==
    IF i > Len(static) THEN permissions
    ELSE StaticLoop(MapReplace(permissions, Placeholder(static[i][1]), static[i][2]),
                    static, i + 1)

FillStatic(permissions, options) ==
    IF "static" \in options.has
    THEN StaticLoop(permissions, options.static, 1)
    ELSE permissions

\* mutant: the values are the outer loop and the permissions the inner one
RECURSIVE FlatMapValuesOuter(_, _, _, _)
FlatMapValuesOuter(permissions, key, values, i) ==
    IF i > Len(values) THEN <<>>
    ELSE MapReplace(permissions, Placeholder(key), values[i])
         \o FlatMapValuesOuter(permissions, key, values, i + 1)

\* permissions.flatMap(permission => values.map(value =>
\* permission.replace(`<${key}>`, value))), from permission i
RECURSIVE FlatMap(_, _, _, _)
FlatMap(permissions, key, values, i) ==
    IF i > Len(permissions) THEN <<>>
    ELSE [j \in 1..Len(values) |->
             Replace(permissions[i], Placeholder(key), values[j])]
         \o FlatMap(permissions, key, values, i + 1)

\* the for...in loop over options.all, from entry i
RECURSIVE AllLoop(_, _, _)
AllLoop(permissions, all, i) ==
    IF i > Len(all) THEN permissions
    ELSE AllLoop(FlatMap(permissions, all[i][1], all[i][2], 1), all, i + 1)

FillAll(permissions, options) ==
    IF "all" \in options.has
    THEN AllLoop(permissions, options.all, 1)
    ELSE permissions

\* mutant: the static substitutions run before the target substitution
fillPermissionTemplateStaticFirst(userId, template, options) ==
    FillAll(FillTarget(userId, FillStatic(<<template>>, options), options), options)

fillPermissionTemplate(userId, template, options) ==
    FillAll(FillStatic(FillTarget(userId, <<template>>, options), options), options)


(***************************************************************************)
(* Specification of the expander: the arguments are drawn in Init and the  *)
(* call is applied to them.                                                *)
(***************************************************************************)
Options(has, targetId, static, all) ==
    [has |-> has, targetId |-> targetId, static |-> static, all |-> all]

FillTemplates ==
    { ReadmeTemplate,
      Placeholder(RoleKey) \o <<".">> \o Placeholder(RoleKey),
      Placeholder(TargetKey) \o <<".">> \o Placeholder(TargetKey),
      <<"u", ".", "v">>,
      Placeholder(KKey) \o <<".">> \o Placeholder(RoleKey),
      Placeholder(RoleKey) \o <<".">> \o Placeholder(KKey) \o <<".">>
          \o Placeholder(TargetKey) }

\* the values of options.static; the first entry stands for no static key
FillStatics ==
    { <<>>,
      <<<<ActionKey, UpdateText>>>>,
      <<<<TargetKey, <<"x">>>>>>,
      <<<<KKey, <<"v">>>>, <<ActionKey, UpdateText>>>> }

\* the values of options.all
FillAlls ==
    { <<>>,
      <<<<RoleKey, <<DriverText, SupervisorText>>>>>>,
      <<<<RoleKey, <<>>>>>>,
      <<<<RoleKey, <<DriverText, SupervisorText>>>>, <<KKey, <<<<"u">>, <<"w">>, <<"v">>>>>>>>,
      <<<<KKey, <<<<"u">>, <<"w">>>>>>, <<RoleKey, <<DriverText, SupervisorText>>>>>>,
      <<<<RoleKey, <<DriverText>>>>, <<KKey, <<>>>>>> }

FillOptions ==
    { Options(has, targetId, static, all) :
          has \in SUBSET {"targetId", "static", "all"},
          targetId \in UserIds, static \in FillStatics, all \in FillAlls }

\* an options object holds a value only under the keys it has
WellFormedOptions(options) ==
    /\ "static" \notin options.has => options.static = <<>>
    /\ "all" \notin options.has => options.all = <<>>
    /\ "targetId" \notin options.has => options.targetId = 5

InitFill ==
    /\ roles = <<>>
    /\ roleMap = EmptyRoleMap
    /\ \E userId \in UserIds, template \in FillTemplates, options \in FillOptions :
          /\ WellFormedOptions(options)
          /\ call = [op |-> "pending", userId |-> userId, template |-> template,
                     options |-> options]

FillPermissionTemplateCall ==
    /\ call.op = "pending"
    /\ call' = [op |-> "fillPermissionTemplate", userId |-> call.userId,
                template |-> call.template, options |-> call.options,
                result |-> fillPermissionTemplate(call.userId, call.template,
                                                  call.options)]
    /\ UNCHANGED <<roles, roleMap>>

NextFill == FillPermissionTemplateCall

SpecFill == InitFill /\ [][NextFill]_vars

(***************************************************************************)
(* Claims about fillPermissionTemplate.                                    *)
(***************************************************************************)
FillCall == call.op = "fillPermissionTemplate"

Without(options, key) ==
    [options EXCEPT !.has = @ \ {key},
                    !.static = IF key = "static" THEN <<>> ELSE @,
                    !.all = IF key = "all" THEN <<>> ELSE @]

\* number of values of the k-th key of all
Size(all, k) == Len(all[k][2])

RECURSIVE ProductFrom(_, _)
ProductFrom(all, k) ==
    IF k > Len(all) THEN 1 ELSE Size(all, k) * ProductFrom(all, k + 1)

\* one value index per key of all
Choices(all) ==
    LET indexes == UNION {1..Size(all, k) : k \in 1..Len(all)} IN
    {c \in [1..Len(all) -> indexes] : \A k \in 1..Len(all) : c[k] <= Size(all, k)}

\* position of a choice in the fan-out, the first key varying slowest
RECURSIVE PositionFrom(_, _, _)
PositionFrom(all, c, k) ==
    IF k > Len(all) THEN 0
    ELSE (c[k] - 1) * ProductFrom(all, k + 1) + PositionFrom(all, c, k + 1)

\* the string with each key's placeholder replaced by the chosen value
RECURSIVE Chosen(_, _, _, _)
Chosen(text, all, c, k) ==
    IF k = 0 THEN text
    ELSE Replace(Chosen(text, all, c, k - 1), Placeholder(all[k][1]), all[k][2][c[k]])

\* C6: with an all option the result is the Cartesian fan-out of its keys:
\* as many entries as the product of the value-set sizes, the entry of each
\* choice of values at the position where the first key varies slowest, and
\* the README call yields exactly its two permissions.
C6_CartesianFanOut ==
    (FillCall /\ "all" \in call.options.has) =>
        LET all == call.options.all
            before == fillPermissionTemplate(call.userId, call.template,
                                             Without(call.options, "all"))
        IN  /\ Len(before) = 1
            /\ Len(call.result) = ProductFrom(all, 1)
            /\ \A c \in Choices(all) :
                  call.result[PositionFrom(all, c, 1) + 1]
                      = Chosen(before[1], all, c, Len(all))
            /\ ( /\ call.userId = 5
                 /\ call.template = ReadmeTemplate
                 /\ call.options = Options({"targetId", "static", "all"}, 5,
                        <<<<ActionKey, UpdateText>>>>,
                        <<<<RoleKey, <<DriverText, SupervisorText>>>>>>) )
               => call.result = <<ReadmeDriver, ReadmeSupervisor>>

\* two keys of two and three values: six entries
C6_Witness ==
    /\ FillCall
    /\ "all" \in call.options.has
    /\ Len(call.options.all) = 2
    /\ Len(call.result) = 6
    /\ call.result[2] # call.result[4]

Occurrences(text, pattern) ==
    Cardinality({i \in 1..Len(text) : OccursAt(text, pattern, i)})

HasKey(entries, key) == \E k \in 1..Len(entries) : entries[k][1] = key

\* C7: with targetId present the result is that of the same call without
\* targetId on the template whose first <target> is already "self" (userId
\* equal to targetId) or "others", so the target step comes first; without
\* targetId and without a key named target, <target> stays in every entry.
C7_TargetReplacedFirst ==
    FillCall =>
        /\ "targetId" \in call.options.has =>
              call.result =
                  fillPermissionTemplate(call.userId,
                      Replace(call.template, Placeholder(TargetKey),
                              IF call.userId = call.options.targetId
                              THEN SelfText ELSE OthersText),
                      Without(call.options, "targetId"))
        /\ ( /\ "targetId" \notin call.options.has
             /\ ~HasKey(call.options.static, TargetKey)
             /\ ~HasKey(call.options.all, TargetKey) ) =>
              \A i \in 1..Len(call.result) :
                  Occurrences(call.result[i], Placeholder(TargetKey))
                      = Occurrences(call.template, Placeholder(TargetKey))

\* a static key named target loses to targetId: only the first <target> of
\* "<target>.<target>" became "others", the second became the static value
C7_Witness ==
    /\ FillCall
    /\ call.options.has = {"targetId", "static"}
    /\ HasKey(call.options.static, TargetKey)
    /\ call.userId # call.options.targetId
    /\ call.result = <<OthersText \o <<".", "x">>>>


(***************************************************************************)
(* isAuthorized                                                            *)
(***************************************************************************)
\* the for loop of isAuthorized over requiredPermissions, from index i; an
\* exception of hasPermission escapes the loop
RECURSIVE AuthorizedLoop(_, _, _, _)
AuthorizedLoop(map, user, requiredPermissions, i) ==
    IF i > Len(requiredPermissions) THEN "true"
    ELSE LET r == hasPermission(map, user, requiredPermissions[i], 1) IN
         IF r = "true" THEN AuthorizedLoop(map, user, requiredPermissions, i + 1)
         ELSE r

\* mutant: one satisfied permission is enough
RECURSIVE AnyAuthorizedLoop(_, _, _, _)
AnyAuthorizedLoop(map, user, requiredPermissions, i) ==
    IF i > Len(requiredPermissions) THEN "false"
    ELSE LET r == hasPermission(map, user, requiredPermissions[i], 1) IN
         IF r = "false" THEN AnyAuthorizedLoop(map, user, requiredPermissions, i + 1)
         ELSE r

isAuthorizedBySome(map, user, template, options) ==
    LET requiredPermissions == fillPermissionTemplate(user._id, template, options)
    IN  IF requiredPermissions = <<>> THEN "true"
        ELSE AnyAuthorizedLoop(map, user, requiredPermissions, 1)

\* mutant: an empty list of required permissions authorizes nobody
isAuthorizedNonEmpty(map, user, template, options) ==
    LET requiredPermissions == fillPermissionTemplate(user._id, template, options)
    IN  IF requiredPermissions = <<>> THEN "false"
        ELSE AuthorizedLoop(map, user, requiredPermissions, 1)

isAuthorized(map, user, template, options) ==
    LET requiredPermissions == fillPermissionTemplate(user._id, template, options)
    IN  AuthorizedLoop(map, user, requiredPermissions, 1)

(***************************************************************************)
(* Specification of isAuthorized over the loaded registry.                 *)
(***************************************************************************)
AuthUsers ==
    {User(5, roleIds) : roleIds \in {<<>>, <<"a">>, <<"b">>, <<"c", "a">>}}
        \cup {User(6, <<"a">>)}

\* "<k>.<target>" and "u.v"
AuthTemplates ==
    { Placeholder(KKey) \o <<".">> \o Placeholder(TargetKey), RequiredUV }

AuthOptions ==
    { Options({}, 5, <<>>, <<>>),
      Options({"static"}, 5, <<<<KKey, <<"u">>>>>>, <<>>),
      Options({"targetId", "all"}, 5, <<>>, <<<<KKey, <<<<"u">>, <<"w">>>>>>>>),
      Options({"targetId", "all"}, 5, <<>>, <<<<KKey, <<<<"w">>, <<"u">>>>>>>>),
      Options({"all"}, 5, <<>>, <<<<KKey, <<>>>>>>) }

IsAuthorized ==
    /\ call.op = "idle"
    /\ \E user \in AuthUsers, template \in AuthTemplates, options \in AuthOptions :
          call' = [op |-> "isAuthorized", user |-> user, template |-> template,
                   options |-> options,
                   result |-> isAuthorized(roleMap, user, template, options)]
    /\ UNCHANGED <<roles, roleMap>>

NextAuth == LoadRoles \/ IsAuthorized \/ Return

SpecAuth == Init /\ [][NextAuth]_vars

(***************************************************************************)
(* Claims about isAuthorized.                                              *)
(***************************************************************************)
AuthCall == call.op = "isAuthorized"

Required == fillPermissionTemplate(call.user._id, call.template, call.options)

\* C1: on an acyclic registry isAuthorized returns true exactly when
\* hasPermission(user, p) is true for every p of the expanded template, so
\* a user failing one permission of the set is not authorized.
C1_AuthorizedIffEveryPermission ==
    (AuthCall /\ Acyclic(roleMap)) =>
        (call.result = "true"
            <=> \A i \in 1..Len(Required) :
                    hasPermission(roleMap, call.user, Required[i], 1) = "true")

\* the user holds the second of two fan-out permissions and not the first
C1_Witness ==
    /\ AuthCall
    /\ Acyclic(roleMap)
    /\ Len(Required) = 2
    /\ hasPermission(roleMap, call.user, Required[1], 1) = "false"
    /\ hasPermission(roleMap, call.user, Required[2], 1) = "true"
    /\ call.result = "false"

SomeAllKeyEmpty(options) ==
    /\ "all" \in options.has
    /\ \E k \in 1..Len(options.all) : options.all[k][2] = <<>>

\* C10: when a key of options.all maps to no value the expansion is empty
\* and isAuthorized is true for every user and registry; in every other
\* case the expansion is not empty and a user without roles is refused.
C10_EmptyFanOutAuthorizesAll ==
    AuthCall =>
        /\ SomeAllKeyEmpty(call.options) => (Required = <<>> /\ call.result = "true")
        /\ ~SomeAllKeyEmpty(call.options) =>
              /\ Required # <<>>
              /\ call.user.roleIds = <<>> => call.result = "false"

\* a user without roles is authorized against an empty registry
C10_Witness ==
    /\ AuthCall
    /\ roles = <<>>
    /\ call.user.roleIds = <<>>
    /\ SomeAllKeyEmpty(call.options)
    /\ call.result = "true"

====
